---- MODULE Spec2Model ----
(***************************************************************************)
(* TweetStore (src/src/llm/gemini/geminiApi.ts): an ordered collection of  *)
(* posts (settings.posts) and three indices rebuilt from it after every    *)
(* mutation: postsById, childrenByThreadId and quotesById.                 *)
(*                                                                         *)
(* A post object is identified by its position in settings.posts at the    *)
(* time the indices were built, so an index entry that "is" a post is the  *)
(* position of that post.  Each operation reads the indices as they were   *)
(* before its own mutation of the array, as the code does.                 *)
(***************************************************************************)
EXTENDS Integers, Sequences, FiniteSets, TLC

\* ---------------------------------------------------------------- bounds
MaxPosts == 3      \* most posts the collection holds in the model
MaxCount == 2      \* largest value addPost may raise a counter to
MaxOps   == 2      \* store calls per behaviour (one clock tick each)

Ids  == {"a", "b", "c"}     \* post identifiers used by callers
NoId == ""                  \* an absent threadId / quoteId (falsy in the code)
Refs == Ids \cup {NoId}
Undefined == 0              \* Map.get of a missing key (positions start at 1)

VARIABLES
    posts,               \* settings.posts
    postsById,           \* Map id -> post (position)
    childrenByThreadId,  \* Map id -> posts (positions)
    quotesById,          \* Map id -> posts (positions)
    now,                 \* the value Date.now() returns to the next call
    hist,                \* history: the calls made so far, each with the state it found
    sent,                \* GeminiProvider: the last generateReply call, its request and result
    walk                 \* collectThreadIds in progress: its locals, loop by loop

vars == <<posts, postsById, childrenByThreadId, quotesById, now, hist, sent, walk>>

store == <<posts, postsById, childrenByThreadId, quotesById, now, hist, walk>>

\* ------------------------------------------------------------ TweetWidgetPost
Post(id, threadId, quoteId, replyCount, retweet) ==
    [id |-> id, threadId |-> threadId, quoteId |-> quoteId,
     replyCount |-> replyCount, retweet |-> retweet, updated |-> 0]

\* ---------------------------------------------------------------- Map
EmptyMap == [k \in {} |-> Undefined]

MapGet(m, k) == IF k \in DOMAIN m THEN m[k] ELSE Undefined

MapGetOrEmpty(m, k) == IF k \in DOMAIN m THEN m[k] ELSE <<>>

MapSet(m, k, v) == [x \in (DOMAIN m) \cup {k} |-> IF x = k THEN v ELSE m[x]]

\* mutant of MapPush: unshift in place of push
MapPushFront(m, k, v) == MapSet(m, k, <<v>> \o MapGetOrEmpty(m, k))

MapPush(m, k, v) == MapSet(m, k, Append(MapGetOrEmpty(m, k), v))

SeqHas(s, x) == \E i \in DOMAIN s : s[i] = x

Max0(n) == IF n < 0 THEN 0 ELSE n

\* ------------------------------------------------------- index rebuild
RECURSIVE ByIdFrom(_, _, _)
ByIdFrom(ps, i, m) ==
    IF i > Len(ps) THEN m ELSE ByIdFrom(ps, i + 1, MapSet(m, ps[i].id, i))

\* mutant of BuildPostsById: the pass starts one post late
BuildPostsByIdFromSecond(ps) == ByIdFrom(ps, 2, EmptyMap)

BuildPostsById(ps) == ByIdFrom(ps, 1, EmptyMap)

RECURSIVE ChildMapFrom(_, _, _)
ChildMapFrom(ps, i, m) ==
    IF i > Len(ps) THEN m
    ELSE ChildMapFrom(ps, i + 1,
            IF ps[i].threadId # NoId THEN MapPush(m, ps[i].threadId, i) ELSE m)

BuildChildMap(ps) == ChildMapFrom(ps, 1, EmptyMap)

RECURSIVE QuoteMapFrom(_, _, _)
QuoteMapFrom(ps, i, m) ==
    IF i > Len(ps) THEN m
    ELSE QuoteMapFrom(ps, i + 1,
            IF ps[i].quoteId # NoId THEN MapPush(m, ps[i].quoteId, i) ELSE m)

BuildQuoteMap(ps) == QuoteMapFrom(ps, 1, EmptyMap)

\* mutant of updateChildrenMap: the quote map of the last rebuild is not
\* replaced by a new Map
updateChildrenMapKeepingQuotes(ps) ==
    /\ childrenByThreadId' = BuildChildMap(ps)
    /\ quotesById' = QuoteMapFrom(ps, 1, quotesById)

updateChildrenMap(ps) ==
    /\ childrenByThreadId' = BuildChildMap(ps)
    /\ quotesById' = BuildQuoteMap(ps)

updatePostsById(ps) ==
    /\ postsById' = BuildPostsById(ps)
    /\ updateChildrenMap(ps)

\* ------------------------------------------------------------ accessors
getPostById(postId) == MapGet(postsById, postId)

getReplies(parentId) == MapGetOrEmpty(childrenByThreadId, parentId)

getQuotePosts(postId) == MapGetOrEmpty(quotesById, postId)

\* ------------------------------------------------------ collectThreadIds
RECURSIVE VisitChildren(_, _, _, _, _)
VisitChildren(ps, children, k, ids, queue) ==
    IF k > Len(children) THEN <<ids, queue>>
    ELSE LET childId == ps[children[k]].id IN
         IF SeqHas(ids, childId)
         THEN VisitChildren(ps, children, k + 1, ids, queue)
         ELSE VisitChildren(ps, children, k + 1,
                            Append(ids, childId), Append(queue, childId))

RECURSIVE ThreadLoop(_, _, _, _)
ThreadLoop(ps, childrenMap, ids, queue) ==
    IF queue = <<>> THEN ids
    ELSE LET currentId == Head(queue)
             children  == MapGetOrEmpty(childrenMap, currentId)
             r == VisitChildren(ps, children, 1, ids, Tail(queue))
         IN  ThreadLoop(ps, childrenMap, r[1], r[2])

\* mutant of collectThreadIds: the children found are not queued
collectThreadIdsOneLevel(ps, childrenMap, rootId) ==
    VisitChildren(ps, MapGetOrEmpty(childrenMap, rootId), 1, <<rootId>>, <<>>)[1]

collectThreadIds(ps, childrenMap, rootId) ==
    ThreadLoop(ps, childrenMap, <<rootId>>, <<rootId>>)

\* mutant of ThreadLoopStep: the ids.has(child.id) test is missing
ThreadLoopStepUnguarded(ps, childrenMap, ids, queue) ==
    LET children == MapGetOrEmpty(childrenMap, Head(queue))
        found    == [k \in DOMAIN children |-> ps[children[k]].id]
    IN  <<ids \o found, Tail(queue) \o found>>

\* one pass of the while loop: shift the queue, visit the children
ThreadLoopStep(ps, childrenMap, ids, queue) ==
    VisitChildren(ps, MapGetOrEmpty(childrenMap, Head(queue)), 1, ids, Tail(queue))

NoWalk == [phase |-> "idle", root |-> NoId, ids |-> <<>>, queue |-> <<>>, steps |-> 0]

\* ------------------------------------------------- counter adjustments
IncReply(ps, j, t) ==
    [ps EXCEPT ![j].replyCount = @ + 1, ![j].updated = t]

\* mutant of IncRetweet: the quote target's timestamp is not refreshed
IncRetweetOnly(ps, j, t) == [ps EXCEPT ![j].retweet = @ + 1]

IncRetweet(ps, j, t) ==
    [ps EXCEPT ![j].retweet = @ + 1, ![j].updated = t]

\* mutant of DecReply: the Math.max(0, ...) floor is missing
DecReplyNoFloor(ps, j) == [ps EXCEPT ![j].replyCount = @ - 1]

DecReply(ps, j) == [ps EXCEPT ![j].replyCount = Max0(@ - 1)]

DecRetweet(ps, j) == [ps EXCEPT ![j].retweet = Max0(@ - 1)]

\* the posts of ps, each object as the call leaves it, before the array changes
AddPostTouched(ps, byId, post, t) ==
    LET parent == IF post.threadId # NoId THEN MapGet(byId, post.threadId)
                  ELSE Undefined
        ps1    == IF parent # Undefined THEN IncReply(ps, parent, t) ELSE ps
        target == IF post.quoteId # NoId THEN MapGet(byId, post.quoteId)
                  ELSE Undefined
    IN  IF target # Undefined THEN IncRetweet(ps1, target, t) ELSE ps1

\* mutant of AddPostResult: push in place of unshift
AddPostAtTail(ps, byId, post, t) == AddPostTouched(ps, byId, post, t) \o <<post>>

AddPostResult(ps, byId, post, t) == <<post>> \o AddPostTouched(ps, byId, post, t)

ObjectAssign(post, updates) ==
    [f \in DOMAIN post |-> IF f \in DOMAIN updates THEN updates[f] ELSE post[f]]

\* mutant of UpdatePostResult: a changed threadId is counted on the new parent
UpdatePostRecounting(ps, byId, postId, updates, t) ==
    LET post   == MapGet(byId, postId)
        parent == IF post # Undefined /\ "threadId" \in DOMAIN updates
                  THEN MapGet(byId, updates.threadId) ELSE Undefined
        ps1    == IF parent # Undefined /\ updates.threadId # ps[post].threadId
                  THEN [ps EXCEPT ![parent].replyCount = @ + 1] ELSE ps
    IN  IF post # Undefined
        THEN [ps1 EXCEPT ![post] = [ObjectAssign(ps1[post], updates) EXCEPT !.updated = t]]
        ELSE ps

UpdatePostResult(ps, byId, postId, updates, t) ==
    LET post == MapGet(byId, postId) IN
    IF post # Undefined
    THEN [ps EXCEPT ![post] = [ObjectAssign(ps[post], updates) EXCEPT !.updated = t]]
    ELSE ps

\* mutant of DeletePostTouched: the quote target's counter is not repaired
DeletePostTouchedReplyOnly(ps, byId, postId) ==
    LET post   == MapGet(byId, postId)
        parent == IF post # Undefined /\ ps[post].threadId # NoId
                  THEN MapGet(byId, ps[post].threadId) ELSE Undefined
    IN  IF parent # Undefined THEN DecReply(ps, parent) ELSE ps

DeletePostTouched(ps, byId, postId) ==
    LET post   == MapGet(byId, postId)
        parent == IF post # Undefined /\ ps[post].threadId # NoId
                  THEN MapGet(byId, ps[post].threadId) ELSE Undefined
        ps1    == IF parent # Undefined THEN DecReply(ps, parent) ELSE ps
        target == IF post # Undefined /\ ps[post].quoteId # NoId
                  THEN MapGet(byId, ps[post].quoteId) ELSE Undefined
    IN  IF target # Undefined THEN DecRetweet(ps1, target) ELSE ps1

\* mutant of DeletePostFilter: the replies of the post are dropped with it
DeletePostCascade(ps, postId) ==
    SelectSeq(ps, LAMBDA p : p.id # postId /\ p.threadId # postId)

\* mutant of DeletePostFilter: splice(findIndex(...), 1), which drops the last
\* post when findIndex returns -1
DeletePostSplice(ps, postId) ==
    IF \E i \in DOMAIN ps : ps[i].id = postId
    THEN LET k == CHOOSE i \in DOMAIN ps :
                      ps[i].id = postId /\ \A j \in DOMAIN ps : ps[j].id = postId => i <= j
         IN  SubSeq(ps, 1, k - 1) \o SubSeq(ps, k + 1, Len(ps))
    ELSE SubSeq(ps, 1, Len(ps) - 1)

DeletePostFilter(ps, postId) == SelectSeq(ps, LAMBDA p : p.id # postId)

DeletePostResult(ps, byId, postId) ==
    DeletePostFilter(DeletePostTouched(ps, byId, postId), postId)

\* mutant of DeleteThreadParent: the parent's counter is not repaired
DeleteThreadParentKept(ps, byId, rootId) == ps

DeleteThreadParent(ps, byId, rootId) ==
    LET rootPost == MapGet(byId, rootId)
        parent   == IF rootPost # Undefined /\ ps[rootPost].threadId # NoId
                    THEN MapGet(byId, ps[rootPost].threadId) ELSE Undefined
    IN  IF parent # Undefined THEN DecReply(ps, parent) ELSE ps

\* mutant of DeleteThreadQuotes: only the root's quote target is repaired
DeleteThreadQuotesRootOnly(ps, byId, threadIds, k) ==
    LET p      == MapGet(byId, threadIds[1])
        target == IF p # Undefined /\ ps[p].quoteId # NoId
                  THEN MapGet(byId, ps[p].quoteId) ELSE Undefined
    IN  IF target # Undefined THEN DecRetweet(ps, target) ELSE ps

RECURSIVE DeleteThreadQuotes(_, _, _, _)
DeleteThreadQuotes(ps, byId, threadIds, k) ==
    IF k > Len(threadIds) THEN ps
    ELSE LET p      == MapGet(byId, threadIds[k])
             target == IF p # Undefined /\ ps[p].quoteId # NoId
                       THEN MapGet(byId, ps[p].quoteId) ELSE Undefined
         IN  DeleteThreadQuotes(
                IF target # Undefined THEN DecRetweet(ps, target) ELSE ps,
                byId, threadIds, k + 1)

\* mutant of DeleteThreadFilter: posts quoting a deleted post go too
DeleteThreadFilterQuoters(ps, threadIds) ==
    SelectSeq(ps, LAMBDA p : ~SeqHas(threadIds, p.id) /\ ~SeqHas(threadIds, p.quoteId))

DeleteThreadFilter(ps, threadIds) ==
    SelectSeq(ps, LAMBDA p : ~SeqHas(threadIds, p.id))

\* mutant of DeleteThreadResult: return at once when the root is not stored
DeleteThreadResultIfRoot(ps, byId, threadIds, rootId) ==
    IF MapGet(byId, rootId) = Undefined THEN ps
    ELSE DeleteThreadFilter(
            DeleteThreadQuotes(DeleteThreadParent(ps, byId, rootId), byId, threadIds, 1),
            threadIds)

DeleteThreadResult(ps, byId, threadIds, rootId) ==
    DeleteThreadFilter(
        DeleteThreadQuotes(DeleteThreadParent(ps, byId, rootId), byId, threadIds, 1),
        threadIds)

\* ---------------------------------------------------------- GeminiProvider
\* A string is the sequence of its pieces; the empty string is <<>>.
MaxThread == 3              \* longest context.thread a caller passes

NoPrompt == <<>>            \* prompt undefined or '' (falsy)

\* context.thread: an array of items, or undefined
Array(items) == [isArray |-> TRUE, items |-> items]
NotAnArray == [isArray |-> FALSE, items |-> <<>>]

NoRequest ==
    [prompt |-> NoPrompt, context |-> [tweetText |-> <<>>, thread |-> NotAnArray],
     contents |-> <<>>, reply |-> <<>>]

Roles == {"user", "assistant", "system"}

\* the template of ./tweetReplyPrompt, with its {tweet} placeholder
geminiPrompt == <<"reply to: ", "{tweet}", " briefly">>

Fallback == <<"reply generation failed">>

\* String.prototype.replace(piece, by): the first occurrence only
StringReplace(str, piece, by) ==
    IF \E i \in DOMAIN str : str[i] = piece
    THEN LET k == CHOOSE i \in DOMAIN str :
                      str[i] = piece /\ \A j \in DOMAIN str : str[j] = piece => i <= j
         IN  SubSeq(str, 1, k - 1) \o by \o SubSeq(str, k + 1, Len(str))
    ELSE str

TweetPrompt(context) == StringReplace(geminiPrompt, "{tweet}", context.tweetText)

Parts(text) == <<[text |-> text]>>

ThreadItem(item) ==
    [role  |-> IF item.role = "assistant" THEN "model" ELSE "user",
     parts |-> Parts(item.content)]

IsArray(thread) == thread.isArray

\* mutant of GeminiContents: the history is sent from one entry on
GeminiContentsFromOne(prompt, context) ==
    IF prompt # NoPrompt
    THEN <<[parts |-> Parts(prompt)]>>
    ELSE IF IsArray(context.thread) /\ Len(context.thread.items) > 0
    THEN [i \in 1 .. Len(context.thread.items) |-> ThreadItem(context.thread.items[i])]
            \o <<[role |-> "user", parts |-> Parts(TweetPrompt(context))]>>
    ELSE <<[parts |-> Parts(TweetPrompt(context))]>>

GeminiContents(prompt, context) ==
    IF prompt # NoPrompt
    THEN <<[parts |-> Parts(prompt)]>>
    ELSE IF IsArray(context.thread) /\ Len(context.thread.items) > 1
    THEN [i \in 1 .. Len(context.thread.items) |-> ThreadItem(context.thread.items[i])]
            \o <<[role |-> "user", parts |-> Parts(TweetPrompt(context))]>>
    ELSE <<[parts |-> Parts(TweetPrompt(context))]>>

\* json?.candidates?.[0]?.content?.parts?.[0]?.text ?? fallback
ReplyText(json) ==
    IF json.candidates # <<>> /\ json.candidates[1].content.parts # <<>>
    THEN json.candidates[1].content.parts[1].text
    ELSE Fallback

Prompts == {NoPrompt, <<"write a haiku">>}

RECURSIVE ThreadsOfLen(_)
ThreadsOfLen(n) ==
    IF n = 0 THEN {<<>>}
    ELSE { Append(t, [role |-> r, content |-> <<"said">>]) :
              t \in ThreadsOfLen(n - 1), r \in Roles }

Threads == {NotAnArray} \cup { Array(t) : t \in UNION { ThreadsOfLen(n) : n \in 0 .. MaxThread } }

Contexts ==
    { [tweetText |-> <<tw>>, thread |-> th] : tw \in {"tweet one", "{tweet}"}, th \in Threads }

Responses ==
    { [candidates |-> <<>>],
      [candidates |-> <<[content |-> [parts |-> <<>>]]>>],
      [candidates |-> <<[content |-> [parts |-> <<[text |-> <<"a reply">>]>>]]>>] }

generateReply(prompt, context, json) ==
    /\ sent' = [prompt |-> prompt, context |-> context,
                contents |-> GeminiContents(prompt, context),
                reply |-> ReplyText(json)]
    /\ UNCHANGED store

InitGemini ==
    /\ posts = <<>>
    /\ postsById = EmptyMap
    /\ childrenByThreadId = EmptyMap
    /\ quotesById = EmptyMap
    /\ now = 1
    /\ hist = <<>>
    /\ sent = NoRequest
    /\ walk = NoWalk

NextGemini ==
    \E prompt \in Prompts, context \in Contexts, json \in Responses :
        generateReply(prompt, context, json)

SpecGemini == InitGemini /\ [][NextGemini]_vars

\* ------------------------------------------- deleteThread, loop by loop
\* collections whose reply links are arbitrary: forests, dangling parents,
\* self-replies and cycles
LinkedCollections ==
    { <<Post("c", tc, NoId, 0, 0), Post("b", tb, NoId, 0, 0), Post("a", ta, NoId, 0, 0)>> :
          tc \in Refs, tb \in Refs, ta \in Refs }

InitThread ==
    /\ posts \in LinkedCollections
    /\ postsById = BuildPostsById(posts)
    /\ childrenByThreadId = BuildChildMap(posts)
    /\ quotesById = BuildQuoteMap(posts)
    /\ now = 1
    /\ hist = <<>>
    /\ sent = NoRequest
    /\ walk = NoWalk

\* deleteThread(rootId) enters collectThreadIds: ids and queue hold rootId
collectStart(rootId) ==
    /\ walk.phase = "idle"
    /\ walk' = [phase |-> "loop", root |-> rootId,
                ids |-> <<rootId>>, queue |-> <<rootId>>, steps |-> 0]
    /\ UNCHANGED <<posts, postsById, childrenByThreadId, quotesById, now, hist, sent>>

\* one pass of while (queue.length > 0)
collectLoop ==
    /\ walk.phase = "loop"
    /\ walk.queue # <<>>
    /\ LET r == ThreadLoopStep(posts, childrenByThreadId, walk.ids, walk.queue) IN
       walk' = [walk EXCEPT !.ids = r[1], !.queue = r[2], !.steps = @ + 1]
    /\ UNCHANGED <<posts, postsById, childrenByThreadId, quotesById, now, hist, sent>>

\* the queue is empty: return Array.from(ids)
collectReturn ==
    /\ walk.phase = "loop"
    /\ walk.queue = <<>>
    /\ walk' = [walk EXCEPT !.phase = "returned"]
    /\ UNCHANGED <<posts, postsById, childrenByThreadId, quotesById, now, hist, sent>>

\* the rest of deleteThread with the ids returned
deleteCollected ==
    /\ walk.phase = "returned"
    /\ LET new == DeleteThreadResult(posts, postsById, walk.ids, walk.root) IN
       /\ posts' = new
       /\ updatePostsById(new)
    /\ walk' = NoWalk
    /\ UNCHANGED <<now, hist, sent>>

NextThread ==
    \/ \E rootId \in Ids : collectStart(rootId)
    \/ collectLoop
    \/ collectReturn
    \/ deleteCollected

SpecThread == InitThread /\ [][NextThread]_vars

\* ----------------------------------------------------------------- inputs
\* collections a host hands to the constructor or to setAllSettings
InitialCollections ==
    { <<>>,
      <<Post("b", "a", NoId, 0, 0)>>,
      <<Post("b", NoId, "a", 0, 0), Post("a", NoId, NoId, 0, 1)>>,
      <<Post("c", "b", NoId, 0, 0), Post("b", "a", NoId, 1, 0),
        Post("a", NoId, NoId, 1, 0)>>,
      <<Post("c", "b", "a", 0, 0), Post("b", NoId, "a", 1, 0),
        Post("a", NoId, NoId, 0, 2)>>,
      <<Post("c", NoId, "b", 0, 0), Post("b", "a", NoId, 0, 1),
        Post("a", NoId, NoId, 1, 0)>> }

\* posts a caller inserts: new posts carry zero counters
\* (a plain post, a reply or a quote)
NewPosts ==
    { Post(id, r[1], r[2], 0, 0) : id \in Ids,
          r \in { x \in Refs \X Refs : x[1] = NoId \/ x[2] = NoId } }

\* Partial<Omit<TweetWidgetPost, 'id'>> values a caller passes to updatePost
Updates ==
    { [threadId |-> v] : v \in Refs } \cup { [quoteId |-> v] : v \in Refs }
        \cup { [updated |-> 0] }

Call(op, id, arg) ==
    [op |-> op, id |-> id, arg |-> arg, before |-> posts,
     byId |-> postsById, children |-> childrenByThreadId, quotes |-> quotesById,
     at |-> now]

Tick(call) ==
    /\ now' = now + 1
    /\ hist' = Append(hist, call)
    /\ UNCHANGED <<sent, walk>>

\* ------------------------------------------------------------------ Init
Init ==
    /\ posts \in InitialCollections
    /\ postsById = BuildPostsById(posts)
    /\ childrenByThreadId = BuildChildMap(posts)
    /\ quotesById = BuildQuoteMap(posts)
    /\ now = 1
    /\ hist = <<>>
    /\ sent = NoRequest
    /\ walk = NoWalk

\* --------------------------------------------------------------- actions
setAllSettings(newPosts) ==
    /\ posts' = newPosts
    /\ updatePostsById(newPosts)
    /\ Tick(Call("setAllSettings", NoId, newPosts))

addPost(post) ==
    /\ Len(posts) < MaxPosts
    /\ LET new == AddPostResult(posts, postsById, post, now) IN
       /\ \A i \in DOMAIN new :
             new[i].replyCount <= MaxCount /\ new[i].retweet <= MaxCount
       /\ posts' = new
       /\ updatePostsById(new)
    /\ Tick(Call("addPost", post.id, post))

updatePost(postId, updates) ==
    /\ LET new == UpdatePostResult(posts, postsById, postId, updates, now) IN
       /\ posts' = new
       /\ IF getPostById(postId) # Undefined
          THEN updatePostsById(new)
          ELSE UNCHANGED <<postsById, childrenByThreadId, quotesById>>
    /\ Tick(Call("updatePost", postId, updates))

deletePost(postId) ==
    /\ LET new == DeletePostResult(posts, postsById, postId) IN
       /\ posts' = new
       /\ updatePostsById(new)
    /\ Tick(Call("deletePost", postId, NoId))

deleteThread(rootId) ==
    /\ LET threadIds == collectThreadIds(posts, childrenByThreadId, rootId)
           new == DeleteThreadResult(posts, postsById, threadIds, rootId)
       IN  /\ posts' = new
           /\ updatePostsById(new)
           /\ Tick(Call("deleteThread", rootId, threadIds))

\* every call is one step; MaxOps bounds the calls of a behaviour
CallsLeft == now <= MaxOps

Next ==
    \/ CallsLeft /\ \E c \in InitialCollections : setAllSettings(c)
    \/ CallsLeft /\ \E p \in NewPosts : addPost(p)
    \/ CallsLeft /\ \E id \in Ids, u \in Updates : updatePost(id, u)
    \/ CallsLeft /\ \E id \in Ids : deletePost(id)
    \/ CallsLeft /\ \E id \in Ids : deleteThread(id)

Spec == Init /\ [][Next]_vars

\* the internal rebuild run once more, nothing mutated in between
rebuild ==
    /\ posts' = posts
    /\ updatePostsById(posts)
    /\ Tick(Call("updatePostsById", NoId, NoId))

NextRebuild ==
    \/ Next
    \/ CallsLeft /\ rebuild

SpecRebuild == Init /\ [][NextRebuild]_vars

\* ============================================================ properties
\* ---- vocabulary of the properties (read off the collection, not the indices)
IdSet(ps) == { ps[i].id : i \in DOMAIN ps }

DistinctIds(ps) == \A i, j \in DOMAIN ps : ps[i].id = ps[j].id => i = j

LastPos(ps, k) ==
    CHOOSE i \in DOMAIN ps : ps[i].id = k /\ \A j \in DOMAIN ps : ps[j].id = k => j <= i

\* the elements of a finite set of numbers in increasing order
Ascending(S) ==
    CHOOSE s \in [1 .. Cardinality(S) -> S] :
        \A i, j \in 1 .. Cardinality(S) : i < j => s[i] < s[j]

RepliesTo(ps, x) == Ascending({ i \in DOMAIN ps : ps[i].threadId = x })

QuotersOf(ps, x) == Ascending({ i \in DOMAIN ps : ps[i].quoteId = x })

\* S holds every post that replies to a member of S
ReplyClosed(ps, S) == \A i \in DOMAIN ps : ps[i].threadId \in S => ps[i].id \in S

\* root and everything that reaches it through reply edges
Subtree(ps, root) ==
    { x \in IdSet(ps) \cup {root} :
        \A S \in SUBSET (IdSet(ps) \cup {root}) :
            (root \in S /\ ReplyClosed(ps, S)) => x \in S }

\* no post is (transitively) a reply to itself, and ids are unique
Forest(ps) ==
    /\ DistinctIds(ps)
    /\ \A i \in DOMAIN ps : ps[i].threadId \notin Subtree(ps, ps[i].id)

Links(ps) ==
    [i \in DOMAIN ps |-> <<ps[i].id, ps[i].threadId, ps[i].quoteId, ps[i].updated>>]

Counters(ps) ==
    [i \in DOMAIN ps |-> <<ps[i].id, ps[i].threadId, ps[i].quoteId,
                           ps[i].replyCount, ps[i].retweet>>]

ReplyCounts(ps) == [i \in DOMAIN ps |-> ps[i].replyCount]

Acted == hist # <<>>

Last == hist[Len(hist)]

Previous == hist[Len(hist) - 1]

Outside(ps, S) == SelectSeq(ps, LAMBDA p : p.id \notin S)

\* ---------------------------------------------------------------- C1
\* C1 as stated: whatever calls were made, every post of the collection is the
\* post getPostById returns for its id, and postsById has one entry per post
\* and none for an id that is not in the collection.
C1_EveryPostIndexed ==
    /\ \A i \in DOMAIN posts : getPostById(posts[i].id) = i
    /\ Cardinality(DOMAIN postsById) = Len(posts)
    /\ DOMAIN postsById \subseteq IdSet(posts)

\* C1 amended: postsById has exactly one entry per id of the collection and none
\* for an absent id, and the entry is the post with that id nearest the tail; so
\* when the ids of the collection are pairwise distinct, every post is the one
\* getPostById returns for its id and there is one entry per post.
C1_ById ==
    /\ DOMAIN postsById = IdSet(posts)
    /\ \A k \in IdSet(posts) : getPostById(k) = LastPos(posts, k)
    /\ \A k \in Ids \ IdSet(posts) : getPostById(k) = Undefined
    /\ DistinctIds(posts) => C1_EveryPostIndexed

C1_Witness ==
    /\ Len(hist) = 2
    /\ hist[1].op \in {"deletePost", "deleteThread", "updatePost", "setAllSettings"}
    /\ Last.op = "addPost"
    /\ DistinctIds(posts)
    /\ Len(posts) >= 2

\* ---------------------------------------------------------------- C2
\* C2: in every state a call leaves, childrenByThreadId[x] is the posts whose
\* threadId is x and quotesById[x] the posts whose quoteId is x, in collection
\* order; an id nothing refers to has no key and getReplies / getQuotePosts
\* return the empty sequence for it.
C2_Adjacency ==
    /\ DOMAIN childrenByThreadId = { posts[i].threadId : i \in DOMAIN posts } \ {NoId}
    /\ DOMAIN quotesById = { posts[i].quoteId : i \in DOMAIN posts } \ {NoId}
    /\ \A x \in Ids :
        /\ getReplies(x) = RepliesTo(posts, x)
        /\ getQuotePosts(x) = QuotersOf(posts, x)

C2_Witness ==
    /\ Acted
    /\ \E x \in Ids : Len(getReplies(x)) >= 2
    /\ \E y \in Ids : Len(getQuotePosts(y)) >= 1
    /\ \E z \in Ids : getReplies(z) = <<>> /\ getQuotePosts(z) = <<>>

\* ---------------------------------------------------------------- C3
\* the calls C3 speaks of: inserts of a post with a new id and zero counters,
\* deletes, and updates that leave threadId and quoteId as they are
C3_Allowed(c) ==
    \/ /\ c.op = "addPost"
       /\ c.id \notin IdSet(c.before)
       /\ c.arg.replyCount = 0 /\ c.arg.retweet = 0
    \/ c.op \in {"deletePost", "deleteThread"}
    \/ /\ c.op = "updatePost"
       /\ DOMAIN c.arg \cap {"threadId", "quoteId"} = {}

LiveReplies(ps, x) == Cardinality({ j \in DOMAIN ps : ps[j].threadId = x })

LiveQuotes(ps, x) == Cardinality({ j \in DOMAIN ps : ps[j].quoteId = x })

\* C3: from a store with accurate counters, after such calls every post's
\* replyCount is the number of stored posts replying to it and its retweet the
\* number of stored posts quoting it.
C3_CountersAccurate ==
    (\A k \in DOMAIN hist : C3_Allowed(hist[k])) =>
        \A i \in DOMAIN posts :
            /\ posts[i].replyCount = LiveReplies(posts, posts[i].id)
            /\ posts[i].retweet = LiveQuotes(posts, posts[i].id)

\* ---------------------------------------------------------------- C4
C4_Allowed(c) == c.op \in {"addPost", "deletePost", "deleteThread"}

\* C4: after any sequence of inserts and deletes, with ids present or absent,
\* no replyCount and no retweet is below 0.
C4_NonNegative ==
    (\A k \in DOMAIN hist : C4_Allowed(hist[k])) =>
        \A i \in DOMAIN posts : posts[i].replyCount >= 0 /\ posts[i].retweet >= 0

\* a delete has just removed a reply whose stored parent counted no reply
C4_Witness ==
    /\ Acted
    /\ \A k \in DOMAIN hist : C4_Allowed(hist[k])
    /\ Last.op \in {"deletePost", "deleteThread"}
    /\ Last.id \in IdSet(Last.before)
    /\ LET b == Last.before
           r == LastPos(b, Last.id)
       IN  /\ b[r].threadId \in IdSet(b) \ {Last.id}
           /\ b[LastPos(b, b[r].threadId)].replyCount = 0
           /\ b[r].threadId \in IdSet(posts)

\* ---------------------------------------------------------------- C5
\* C5: when deleteThread(root) runs on a reply forest, the ids collectThreadIds
\* returned are root and every id that reaches root through reply edges, each
\* once; a root nothing replies to yields root alone.
C5_SubtreeIds ==
    (Acted /\ Last.op = "deleteThread" /\ Forest(Last.before)) =>
        LET ids == Last.arg IN
        /\ { ids[k] : k \in DOMAIN ids } = Subtree(Last.before, Last.id)
        /\ \A k, l \in DOMAIN ids : ids[k] = ids[l] => k = l
        /\ LiveReplies(Last.before, Last.id) = 0 => ids = <<Last.id>>

C5_Witness ==
    /\ Acted /\ Last.op = "deleteThread" /\ Forest(Last.before)
    /\ Len(Last.arg) = 3
    /\ \E i \in DOMAIN Last.before :
          Last.before[i].threadId \notin {NoId, Last.id}
              /\ Last.before[i].id \in Subtree(Last.before, Last.id)

\* ---------------------------------------------------------------- C6
\* C6: deleteThread(root) leaves in the collection exactly the posts whose id
\* is neither root nor reaches root through reply edges, in their previous
\* order and with ids, links and timestamps as before; a post tied to the
\* subtree by a quoteId alone stays.
C6_RemovesSubtree ==
    (Acted /\ Last.op = "deleteThread") =>
        Links(posts) = Links(Outside(Last.before, Subtree(Last.before, Last.id)))

C6_Witness ==
    /\ Acted /\ Last.op = "deleteThread"
    /\ Len(Last.before) - Len(posts) >= 2
    /\ \E i \in DOMAIN posts : posts[i].quoteId \in Subtree(Last.before, Last.id)

\* ---------------------------------------------------------------- C7
\* deleteThread(root) found root stored, with a threadId that is a stored id
C7_Case ==
    /\ Acted /\ Last.op = "deleteThread"
    /\ Last.id \in IdSet(Last.before)
    /\ Last.before[LastPos(Last.before, Last.id)].threadId \in IdSet(Last.before)

C7_Parent == LastPos(Last.before, Last.before[LastPos(Last.before, Last.id)].threadId)

\* C7 as stated: the parent Z of the root loses exactly 1 from its replyCount
\* and the replyCount of every other surviving post is as before.  (Read on the
\* histories that hold no insert, where a counter differs from the live count
\* only through updatePost, the drift the store accepts.)
C7_ParentMinusOne ==
    (C7_Case /\ \A k \in DOMAIN hist : hist[k].op # "addPost") =>
        ReplyCounts(posts) =
            ReplyCounts(Outside([Last.before EXCEPT ![C7_Parent].replyCount = @ - 1],
                                Subtree(Last.before, Last.id)))

\* C7 amended: Z.replyCount becomes max(0, Z.replyCount - 1), one less unless it
\* was already 0, whatever the size of the subtree; no other surviving post's
\* replyCount changes.
C7_ParentMinusOneFloored ==
    C7_Case =>
        ReplyCounts(posts) =
            ReplyCounts(Outside([Last.before EXCEPT ![C7_Parent].replyCount = Max0(@ - 1)],
                                Subtree(Last.before, Last.id)))

C7_Witness ==
    /\ C7_Case
    /\ Len(Last.before) - Len(posts) >= 2
    /\ Last.before[C7_Parent].id \in IdSet(posts)
    /\ Last.before[C7_Parent].replyCount >= 1
    /\ posts[LastPos(posts, Last.before[C7_Parent].id)].replyCount
          = Last.before[C7_Parent].replyCount - 1

\* ---------------------------------------------------------------- C8
\* the last two calls were addPost(Q), Q.id new to the store, and deletePost(Q.id)
C8_Case ==
    /\ Len(hist) >= 2
    /\ Previous.op = "addPost" /\ Previous.id \notin IdSet(Previous.before)
    /\ Last.op = "deletePost" /\ Last.id = Previous.id

\* C8: after that pair the collection (ids, links, counters, in order) and the
\* three indices are as before the insert; a target with retweet 0 that Q
\* quotes had retweet 1 in between and has 0 again.
C8_RoundTrip ==
    C8_Case =>
        /\ Counters(posts) = Counters(Previous.before)
        /\ postsById = Previous.byId
        /\ childrenByThreadId = Previous.children
        /\ quotesById = Previous.quotes
        /\ \A t \in DOMAIN Previous.before :
              (Previous.byId[Previous.before[t].id] = t
                  /\ Previous.arg.quoteId = Previous.before[t].id
                  /\ Previous.before[t].retweet = 0)
              => Last.before[t + 1].retweet = 1 /\ posts[t].retweet = 0

C8_Witness ==
    /\ C8_Case
    /\ \E t \in DOMAIN Previous.before :
          /\ Previous.arg.quoteId = Previous.before[t].id
          /\ Previous.before[t].retweet = 0
          /\ Last.before[t + 1].retweet = 1
          /\ posts[t].retweet = 0

\* ---------------------------------------------------------------- C9
\* updatePost found the post and gave it another threadId or another quoteId
C9_Case ==
    /\ Acted /\ Last.op = "updatePost" /\ Last.id \in IdSet(Last.before)
    /\ LET old == Last.before[LastPos(Last.before, Last.id)] IN
       \/ "threadId" \in DOMAIN Last.arg /\ Last.arg.threadId # old.threadId
       \/ "quoteId" \in DOMAIN Last.arg /\ Last.arg.quoteId # old.quoteId

\* C9: such an update changes no replyCount and no retweet, neither of the old
\* nor of the new parent or target, while the post leaves the index list of the
\* old key and is in the list of the new one.
C9_UpdateFrame ==
    C9_Case =>
        LET j   == LastPos(Last.before, Last.id)
            old == Last.before[j]
        IN  /\ Len(posts) = Len(Last.before)
            /\ \A i \in DOMAIN posts :
                  /\ posts[i].replyCount = Last.before[i].replyCount
                  /\ posts[i].retweet = Last.before[i].retweet
            /\ "threadId" \in DOMAIN Last.arg =>
                  /\ posts[j].threadId = Last.arg.threadId
                  /\ Last.arg.threadId # NoId => SeqHas(getReplies(Last.arg.threadId), j)
                  /\ old.threadId # Last.arg.threadId => ~SeqHas(getReplies(old.threadId), j)
            /\ "quoteId" \in DOMAIN Last.arg =>
                  /\ posts[j].quoteId = Last.arg.quoteId
                  /\ Last.arg.quoteId # NoId => SeqHas(getQuotePosts(Last.arg.quoteId), j)
                  /\ old.quoteId # Last.arg.quoteId => ~SeqHas(getQuotePosts(old.quoteId), j)

\* a reply moved from a stored parent that counts it to another stored post
C9_Witness ==
    /\ C9_Case
    /\ "threadId" \in DOMAIN Last.arg
    /\ LET b   == Last.before
           old == b[LastPos(b, Last.id)]
       IN  /\ old.threadId \in IdSet(b) /\ Last.arg.threadId \in IdSet(b) \ {Last.id}
           /\ b[LastPos(b, old.threadId)].replyCount = 1
           /\ posts[LastPos(posts, old.threadId)].replyCount = 1
           /\ posts[LastPos(posts, Last.arg.threadId)].replyCount
                 = b[LastPos(b, Last.arg.threadId)].replyCount

\* --------------------------------------------------------------- C10
C10_Case ==
    /\ Acted /\ Last.op \in {"updatePost", "deletePost"}
    /\ Last.id \notin IdSet(Last.before)

\* C10: updatePost and deletePost with an id that is not stored leave the
\* collection, every field of every post and the three indices as they were.
C10_MissingIdNoOp ==
    C10_Case =>
        /\ posts = Last.before
        /\ postsById = Last.byId
        /\ childrenByThreadId = Last.children
        /\ quotesById = Last.quotes

\* both calls made with a missing id on a store that holds linked posts
C10_Witness ==
    /\ Len(hist) = 2
    /\ hist[1].op = "updatePost" /\ hist[1].id \notin IdSet(hist[1].before)
    /\ Last.op = "deletePost" /\ C10_Case
    /\ posts # <<>>
    /\ \E i \in DOMAIN posts : posts[i].threadId = Last.id \/ posts[i].quoteId = Last.id

\* --------------------------------------------------------------- C11
Refer(ps) == [i \in DOMAIN ps |-> <<ps[i].id, ps[i].threadId, ps[i].quoteId>>]

C11_Case == Acted /\ Last.op = "deletePost" /\ Last.id \in IdSet(Last.before)

\* C11: deletePost(id) takes the post with that id out of the collection and
\* nothing else: every other post, its replies and quoters among them, stays
\* in its previous order with threadId and quoteId as they were; getPostById(id)
\* then finds nothing, and getReplies(id) / getQuotePosts(id) still return the
\* posts left behind that refer to id.
C11_DeletesOnlyThatPost ==
    C11_Case =>
        /\ Refer(posts) = Refer(Outside(Last.before, {Last.id}))
        /\ getPostById(Last.id) = Undefined
        /\ getReplies(Last.id) = RepliesTo(posts, Last.id)
        /\ getQuotePosts(Last.id) = QuotersOf(posts, Last.id)
        /\ Len(getReplies(Last.id)) =
              Cardinality({ i \in DOMAIN Last.before :
                  Last.before[i].threadId = Last.id /\ Last.before[i].id # Last.id })
        /\ Len(getQuotePosts(Last.id)) =
              Cardinality({ i \in DOMAIN Last.before :
                  Last.before[i].quoteId = Last.id /\ Last.before[i].id # Last.id })

\* the deleted post leaves a reply and a quoter behind
C11_Witness ==
    /\ C11_Case
    /\ Len(posts) = Len(Last.before) - 1
    /\ getReplies(Last.id) # <<>>
    /\ getQuotePosts(Last.id) # <<>>

\* --------------------------------------------------------------- C12
C12_Case == Acted /\ Last.op = "addPost" /\ Last.id \notin IdSet(Last.before)

\* C12: addPost of a post with a new id puts it at the head of the collection,
\* keeps the posts stored before behind it in their order, and leaves it
\* visible through getPostById, through getReplies of its threadId when that is
\* set and through getQuotePosts of its quoteId when that is set.
C12_InsertAtHead ==
    C12_Case =>
        /\ posts[1] = Last.arg
        /\ Refer(Tail(posts)) = Refer(Last.before)
        /\ getPostById(Last.id) = 1
        /\ Last.arg.threadId # NoId => SeqHas(getReplies(Last.arg.threadId), 1)
        /\ Last.arg.quoteId # NoId => SeqHas(getQuotePosts(Last.arg.quoteId), 1)

\* a reply and then a quote were inserted behind stored posts
C12_Witness ==
    /\ C12_Case
    /\ Len(hist) = 2 /\ Previous.op = "addPost"
    /\ Previous.before # <<>>
    /\ Previous.arg.threadId # NoId
    /\ Last.arg.quoteId # NoId

\* --------------------------------------------------------------- C13
C13_Called == sent # NoRequest

C13_ThreadCase ==
    /\ sent.prompt = NoPrompt
    /\ IsArray(sent.context.thread)
    /\ Len(sent.context.thread.items) > 1

\* the thread, entry by entry, 'assistant' as 'model' and every other role as
\* 'user', each with its content as the text
C13_Conversation ==
    /\ Len(sent.contents) >= Len(sent.context.thread.items)
    /\ \A i \in DOMAIN sent.context.thread.items :
          /\ DOMAIN sent.contents[i] = {"role", "parts"}
          /\ sent.contents[i].role =
                (IF sent.context.thread.items[i].role = "assistant" THEN "model" ELSE "user")
          /\ sent.contents[i].parts = Parts(sent.context.thread.items[i].content)

C13_SingleTemplated ==
    sent.contents = <<[parts |-> Parts(TweetPrompt(sent.context))]>>

\* C13 as stated: the conversation is sent exactly when the thread has more
\* than one entry and no prompt is given; in every other case one prompt built
\* from the template with the tweet text is sent.
C13_ConversationOrTemplate ==
    C13_Called =>
        IF C13_ThreadCase THEN C13_Conversation ELSE C13_SingleTemplated

\* C13 amended: an explicit prompt is sent as it is, as the single entry; with
\* no prompt and a thread of more than one entry the thread is sent as a
\* conversation, followed by the templated prompt as a last 'user' entry; with
\* no prompt and a thread of at most one entry (or none) the single templated
\* prompt is sent.
C13_Contents ==
    C13_Called =>
        /\ sent.prompt # NoPrompt => sent.contents = <<[parts |-> Parts(sent.prompt)]>>
        /\ C13_ThreadCase =>
              /\ C13_Conversation
              /\ Len(sent.contents) = Len(sent.context.thread.items) + 1
              /\ sent.contents[Len(sent.contents)] =
                    [role |-> "user", parts |-> Parts(TweetPrompt(sent.context))]
        /\ (sent.prompt = NoPrompt /\ ~C13_ThreadCase) => C13_SingleTemplated

C13_Witness ==
    /\ C13_Called /\ C13_ThreadCase
    /\ Len(sent.context.thread.items) = 2
    /\ sent.context.thread.items[1].role = "assistant"
    /\ sent.context.thread.items[2].role = "system"
    /\ sent.contents[1].role = "model" /\ sent.contents[2].role = "user"
    /\ Len(sent.contents) = 3

\* --------------------------------------------------------------- C14
C14_Case == Acted /\ Last.op = "addPost"

\* the stored post a reference resolves to when addPost starts (0: none)
C14_Resolved(ref) ==
    IF ref \in IdSet(Last.before) THEN LastPos(Last.before, ref) ELSE Undefined

C14_Plus(i, j) == IF i = j THEN 1 ELSE 0

\* C14: addPost raises by exactly 1 the replyCount of the post its threadId
\* resolves to and the retweet of the post its quoteId resolves to, stamps
\* each of them with the time of the call, and leaves every other counter as
\* it was (all of them when the reference is absent or resolves to nothing).
C14_InsertCounters ==
    C14_Case =>
        /\ Len(posts) = Len(Last.before) + 1
        /\ \A i \in DOMAIN Last.before :
              /\ posts[i + 1].replyCount = Last.before[i].replyCount
                    + C14_Plus(i, C14_Resolved(Last.arg.threadId))
              /\ posts[i + 1].retweet = Last.before[i].retweet
                    + C14_Plus(i, C14_Resolved(Last.arg.quoteId))
              /\ (i = C14_Resolved(Last.arg.threadId) \/ i = C14_Resolved(Last.arg.quoteId))
                    => posts[i + 1].updated = Last.at

C14_Witness ==
    /\ C14_Case /\ Len(hist) = 2 /\ Previous.op = "addPost"
    /\ Previous.arg.threadId \in IdSet(Previous.before)
    /\ C14_Resolved(Last.arg.quoteId) # Undefined
    /\ posts[C14_Resolved(Last.arg.quoteId) + 1].retweet = 1
    /\ \E i \in DOMAIN posts : posts[i].replyCount = 1 /\ posts[i].updated = Previous.at

\* --------------------------------------------------------------- C15
C15_Case == Acted /\ Last.op = "deleteThread"

\* the ids deleteThread removes
C15_Deleted == Subtree(Last.before, Last.id)

\* the deleted posts that quote x
C15_DeletedQuoters(x) ==
    Cardinality({ j \in DOMAIN Last.before :
                     Last.before[j].id \in C15_Deleted /\ Last.before[j].quoteId = x })

C15_Survivors == Outside(Last.before, C15_Deleted)

\* C15 as stated: after deleteThread every surviving post has its retweet lowered once
\* for each deleted post that quotes its id, floored at 0, and a surviving
\* post no deleted post quotes keeps its retweet.
C15_RetweetPerDeletedQuoter ==
    C15_Case =>
        /\ Len(posts) = Len(C15_Survivors)
        /\ \A i \in DOMAIN posts :
              posts[i].retweet =
                  Max0(C15_Survivors[i].retweet - C15_DeletedQuoters(posts[i].id))

\* the post an id resolves to when deleteThread starts (0: none)
C15_Resolved(x) ==
    IF x \in IdSet(Last.before) THEN LastPos(Last.before, x) ELSE Undefined

\* the deleted ids whose resolved post quotes an id that resolves to post i
C15_Hits(i) ==
    Cardinality({ x \in C15_Deleted \cap IdSet(Last.before) :
                     C15_Resolved(Last.before[C15_Resolved(x)].quoteId) = i })

C15_Kept == Ascending({ i \in DOMAIN Last.before : Last.before[i].id \notin C15_Deleted })

\* C15 amended: deleteThread walks the deleted ids, not the deleted posts: for
\* each deleted id it takes the post getPostById returns for it and lowers the
\* retweet (floored at 0) of the post its quoteId resolves to. A surviving
\* post loses one retweet per such id and keeps its retweet otherwise; with
\* pairwise distinct ids that is once per deleted post quoting it.
C15_RetweetPerDeletedId ==
    C15_Case =>
        /\ Len(posts) = Len(C15_Kept)
        /\ \A k \in DOMAIN posts :
              posts[k].retweet =
                  Max0(Last.before[C15_Kept[k]].retweet - C15_Hits(C15_Kept[k]))
        /\ DistinctIds(Last.before) =>
              \A k \in DOMAIN posts :
                  C15_Hits(C15_Kept[k]) = C15_DeletedQuoters(posts[k].id)

C15_Witness ==
    /\ C15_Case /\ DistinctIds(Last.before)
    /\ \E k \in DOMAIN posts :
          /\ C15_DeletedQuoters(posts[k].id) = 2
          /\ Last.before[C15_Kept[k]].retweet = 2
          /\ posts[k].retweet = 0

\* --------------------------------------------------------------- C16
C16_Ops == {"addPost", "updatePost", "deletePost", "deleteThread"}

\* the positions, before the call, of the posts the call keeps
C16_Kept ==
    CASE Last.op = "deletePost" ->
            Ascending({ i \in DOMAIN Last.before : Last.before[i].id # Last.id })
      [] Last.op = "deleteThread" -> C15_Kept
      [] Last.op = "addPost" -> [k \in 1 .. Len(Last.before) + 1 |-> k - 1]
      [] OTHER -> [k \in DOMAIN Last.before |-> k]

\* post k of the collection was stored before the call and the call changed
\* one of its fields
C16_Changed(k) == C16_Kept[k] # 0 /\ posts[k] # Last.before[C16_Kept[k]]

\* C16: whenever addPost, updatePost, deletePost or deleteThread changes a
\* field of a stored post (a counter of a parent or quote target included),
\* that post's updated is the time of the call.
C16_UpdatedOnEveryChange ==
    (Acted /\ Last.op \in C16_Ops) =>
        /\ Len(posts) = Len(C16_Kept)
        /\ \A k \in DOMAIN posts : C16_Changed(k) => posts[k].updated = Last.at

\* --------------------------------------------------------------- C17
C17_Distinct(s) == \A i, j \in DOMAIN s : s[i] = s[j] => i = j

\* the reply relation has a cycle through the root of the walk
C17_Cyclic ==
    \E i \in DOMAIN posts :
        /\ posts[i].id = walk.root
        /\ posts[i].threadId \in Subtree(posts, walk.root)

\* C17: collectThreadIds never holds an id twice and takes every id from the
\* queue at most once, so its loop ends after at most one pass per stored id
\* (and one for the root), cycles in the reply links included; what it returns
\* is the subtree of the root, and deleteThread goes on with it.
C17_WalkBounded ==
    walk.phase # "idle" =>
        /\ C17_Distinct(walk.ids)
        /\ walk.steps + Len(walk.queue) = Len(walk.ids)
        /\ walk.steps <= Cardinality(IdSet(posts) \cup {walk.root})
        /\ walk.phase = "returned" =>
              /\ { walk.ids[i] : i \in DOMAIN walk.ids } = Subtree(posts, walk.root)
              /\ walk.ids = collectThreadIds(posts, childrenByThreadId, walk.root)

C17_Witness ==
    /\ walk.phase = "returned"
    /\ C17_Cyclic
    /\ Len(walk.ids) = 3
    /\ walk.steps = 3

\* --------------------------------------------------------------- C18
C18_Case == Acted /\ Last.op = "addPost" /\ Last.id \in IdSet(Last.before)

\* C18: after addPost of a post whose id is already stored, getPostById of
\* that id returns the post just added (the head of the collection), not the
\* post stored before.
C18_LastWriteWins ==
    C18_Case => getPostById(Last.id) = 1

\* --------------------------------------------------------------- C19
C19_Case == Acted /\ Last.op = "updatePostsById"

\* C19: a rebuild run again with nothing mutated since the last one (every
\* operation ends in a rebuild) leaves the by-id, children and quote indices
\* equal in content to what they were, and the collection and its posts as
\* they were; the indices are the ones one rebuild makes from the collection.
C19_RebuildIdempotent ==
    C19_Case =>
        /\ posts = Last.before
        /\ postsById = Last.byId
        /\ childrenByThreadId = Last.children
        /\ quotesById = Last.quotes
        /\ postsById = BuildPostsById(posts)
        /\ childrenByThreadId = BuildChildMap(posts)
        /\ quotesById = BuildQuoteMap(posts)

C19_Witness ==
    /\ C19_Case /\ Len(hist) = 2 /\ Previous.op = "updatePostsById"
    /\ postsById # EmptyMap
    /\ childrenByThreadId # EmptyMap
    /\ quotesById # EmptyMap

\* --------------------------------------------------------------- C20
C20_Case == Acted /\ Last.op = "deleteThread" /\ Last.id \notin IdSet(Last.before)

\* C20: deleteThread of an id that is not stored still removes every post
\* whose chain of threadIds reaches that id and keeps the others in place and
\* in order; it lowers (floored at 0) the retweet of a kept post once per
\* removed id whose post quotes it, that is once per removed quoter when ids
\* are distinct; and it changes no replyCount and no timestamp.
C20_MissingRootRemovesOrphans ==
    C20_Case =>
        /\ Refer(posts) = Refer(Outside(Last.before, Subtree(Last.before, Last.id)))
        /\ Len(posts) = Len(C15_Kept)
        /\ \A k \in DOMAIN posts :
              /\ posts[k].replyCount = Last.before[C15_Kept[k]].replyCount
              /\ posts[k].updated = Last.before[C15_Kept[k]].updated
              /\ posts[k].retweet =
                    Max0(Last.before[C15_Kept[k]].retweet - C15_Hits(C15_Kept[k]))
              /\ DistinctIds(Last.before) =>
                    C15_Hits(C15_Kept[k]) = C15_DeletedQuoters(posts[k].id)
        /\ (\E i \in DOMAIN Last.before : Last.before[i].threadId = Last.id)
              => Len(posts) < Len(Last.before)

C20_Witness ==
    /\ C20_Case /\ DistinctIds(Last.before)
    /\ Len(posts) = Len(Last.before) - 1
    /\ posts # <<>>
    /\ C15_DeletedQuoters(posts[1].id) = 1
    /\ Last.before[C15_Kept[1]].retweet = 1
    /\ posts[1].retweet = 0

====
